---- MODULE Spec2Model ----
(***************************************************************************)
(* Model of JacobsPythonTools: SubjectFitSpectraAnalysis.analysis() with   *)
(* its two fitters (robust_reg, run_foof) and SubjectDataBase.load_data(). *)
(*                                                                         *)
(* Numbers are exact rationals with a not-a-number and an infinity kind.   *)
(* An n-dimensional numpy array is a record [shape, at]: shape is the      *)
(* tuple of axis lengths, at maps every index tuple (1-based) to a value.  *)
(***************************************************************************)
EXTENDS Integers, Sequences, FiniteSets, TLC

VARIABLES
    \* ---- SubjectDataBase attributes (subject.py) ----
    subject,                  \* "None" or the subject code
    file_exists,              \* os.path.exists(self.save_file)
    load_data_if_file_exists,
    do_not_compute,
    force_recompute,
    subject_data,             \* None or the loaded/computed power data
    load_calls,               \* what the last load_data() call did
    compute_overridden,       \* the object's class overrides compute_data()
    \* ---- SubjectFitSpectraAnalysis attributes ----
    has_filter,               \* recall_filter_func is not None
    recalled,                 \* what recall_filter_func returns for the data
    use_fooof,
    fooof_fit_each_event,
    log_power,
    num_freqs,                \* len(self.freqs)
    res,                      \* self.res: key -> array
    \* ---- one run of analysis() ----
    pc,                       \* "idle", "fitting", "done", "error"
    err,                      \* the exception that ended the run
    is_swapped,
    units,                    \* the arguments y.T handed to Parallel, in order
    dispatched,               \* how many units were handed to a worker
    completed,                \* finished units, in completion order
    fit_res,                  \* the list Parallel returned (res of line 97)
    written,                  \* keys of self.res assigned by this run
    runs,                     \* analysis() calls made on this object
    \* ---- SubjectAnalysisPipeline (subject.py) ----
    dicts,                    \* the dict objects: reference -> set of entries
    analyses,                 \* self.analyses: [name, res], res a reference
    pipeline_res,             \* the pipeline's self.res, a reference
    prev_res,                 \* local of run(), a reference
    ana_num,                  \* local of run(), counted from 0
    run_pc,                   \* position in run(), or how it ended
    ran                       \* the analysis.run() calls made, in order

vars == <<subject, file_exists, load_data_if_file_exists, do_not_compute,
          force_recompute, subject_data, load_calls, compute_overridden,
          has_filter, recalled,
          use_fooof, fooof_fit_each_event, log_power, num_freqs, res, pc, err,
          is_swapped, units, dispatched, completed, fit_res, written, runs,
          dicts, analyses, pipeline_res, prev_res, ana_num, run_pc, ran>>

ioVars == <<subject, file_exists, load_data_if_file_exists, do_not_compute,
            force_recompute, load_calls, compute_overridden>>

cfgVars == <<has_filter, recalled, use_fooof, fooof_fit_each_event, log_power,
             num_freqs>>

runVars == <<pc, err, is_swapped, units, dispatched, completed, fit_res,
             written, runs>>

pipeVars == <<dicts, analyses, pipeline_res, prev_res, ana_num, run_pc, ran>>

(***************************************************************************)
(* Bounds of the model.                                                    *)
(***************************************************************************)
MaxEvents == 4
MaxFreqs == 3
MaxElecs == 2
MaxTime == 2
MaxFailEvent == 2
MaxRuns == 2
MaxAnalyses == 3

(***************************************************************************)
(* Numbers: rationals n/d in lowest terms, not-a-number, signed infinity,  *)
(* and signed square roots of rationals (t statistics).                    *)
(***************************************************************************)
Abs(n) == IF n < 0 THEN -n ELSE n

Sign(n) == IF n < 0 THEN -1 ELSE IF n > 0 THEN 1 ELSE 0

RECURSIVE GCD(_, _)
GCD(a, b) == IF b = 0 THEN a ELSE GCD(b, a % b)

NaN == [k |-> "nan", n |-> 0, d |-> 1]

Rat(n, d) ==
    LET g == GCD(Abs(n), Abs(d))
        s == IF d < 0 THEN -1 ELSE 1
    IN  [k |-> "num", n |-> (s * n) \div g, d |-> (s * d) \div g]

Num(n) == [k |-> "num", n |-> n, d |-> 1]

IsNaN(v) == v.k = "nan"

IsFinite(v) == v.k \in {"num", "sqrt", "pval"}

\* IEEE division: x/0 is an infinity, 0/0 is not-a-number.
RDivInts(n, d) ==
    IF d = 0 THEN IF n = 0 THEN NaN ELSE [k |-> "inf", n |-> Sign(n), d |-> 1]
    ELSE Rat(n, d)

RAdd(a, b) ==
    IF IsNaN(a) \/ IsNaN(b) THEN NaN ELSE Rat(a.n * b.d + b.n * a.d, a.d * b.d)

RSub(a, b) ==
    IF IsNaN(a) \/ IsNaN(b) THEN NaN ELSE Rat(a.n * b.d - b.n * a.d, a.d * b.d)

RMul(a, b) == IF IsNaN(a) \/ IsNaN(b) THEN NaN ELSE Rat(a.n * b.n, a.d * b.d)

RDiv(a, b) ==
    IF IsNaN(a) \/ IsNaN(b) THEN NaN ELSE RDivInts(a.n * b.d, a.d * b.n)

RNeg(a) == IF IsNaN(a) THEN NaN ELSE [a EXCEPT !.n = -a.n]

RECURSIVE Pow(_, _)
Pow(b, e) == IF e = 0 THEN 1 ELSE b * Pow(b, e - 1)

\* ne.evaluate("10**p_spects") on one value (the exponents are integers).
Pow10(v) ==
    IF IsNaN(v) THEN NaN
    ELSE IF v.n >= 0 THEN Num(Pow(10, v.n)) ELSE Rat(1, Pow(10, -v.n))

RECURSIVE RSum(_)
RSum(s) == IF s = <<>> THEN Num(0) ELSE RAdd(Head(s), RSum(Tail(s)))

NotNaNs(s) == SelectSeq(s, LAMBDA v : ~IsNaN(v))

\* np.mean of a sequence: NaN propagates, the mean of nothing is NaN.
Mean(s) == IF s = <<>> THEN NaN ELSE RDiv(RSum(s), Num(Len(s)))

\* np.nanmean of a sequence: NaN entries are dropped first.
NanMean(s) == Mean(NotNaNs(s))

(***************************************************************************)
(* scipy.stats.ttest_ind(a, b) on two samples (equal variances, two-sided, *)
(* nan_policy 'propagate'): a not-a-number observation or an empty sample  *)
(* makes the statistic and the p-value not-a-number.  The statistic is     *)
(* kept exactly, as the signed square root of the rational t^2; the        *)
(* p-value is kept as the pair (t^2, degrees of freedom) that decides it.  *)
(***************************************************************************)
SumSq(s, m) == RSum([i \in 1..Len(s) |-> RMul(RSub(s[i], m), RSub(s[i], m))])

TStat(a, b) ==
    IF Len(a) = 0 \/ Len(b) = 0 \/ NotNaNs(a) # a \/ NotNaNs(b) # b THEN NaN
    ELSE LET n1 == Len(a)
             n2 == Len(b)
             diff == RSub(Mean(a), Mean(b))
             svar == RDiv(RAdd(SumSq(a, Mean(a)), SumSq(b, Mean(b))),
                          Num(n1 + n2 - 2))
             den2 == RMul(svar, Rat(n1 + n2, n1 * n2))
         IN  IF IsNaN(den2) THEN NaN
             ELSE IF den2.n = 0 THEN RDivInts(diff.n, 0)
             ELSE LET t2 == RDiv(RMul(diff, diff), den2)
                  IN  [k |-> "sqrt", n |-> Sign(diff.n) * t2.n, d |-> t2.d]

PValue(a, b) ==
    LET t == TStat(a, b)
    IN  IF IsNaN(t) THEN NaN
        ELSE IF t.k = "inf" THEN Num(0)
        ELSE [k |-> "pval", n |-> Abs(t.n), d |-> t.d, df |-> Len(a) + Len(b) - 2]

(***************************************************************************)
(* numpy arrays.                                                           *)
(***************************************************************************)
RECURSIVE Idx(_)
Idx(shape) ==
    IF shape = <<>> THEN {<<>>}
    ELSE {<<i>> \o r : i \in 1..Head(shape), r \in Idx(Tail(shape))}

\* The array of the given shape holding at[i] at index i, with its values
\* computed once, as numpy computes an array when it is built.
Arr(shape, at) ==
    IF at = at THEN [shape |-> shape, at |-> at] ELSE [shape |-> shape, at |-> <<>>]

NDim(a) == Len(a.shape)

Reverse(s) == [i \in 1..Len(s) |-> s[Len(s) + 1 - i]]

\* a.T
Transpose(a) == Arr(Reverse(a.shape), [i \in Idx(Reverse(a.shape)) |-> a.at[Reverse(i)]])

SwapSeq(s, p, q) ==
    [i \in 1..Len(s) |-> IF i = p THEN s[q] ELSE IF i = q THEN s[p] ELSE s[i]]

\* np.swapaxes(a, p, q) raises AxisError unless both axes (0-based) exist.
SwapAxesOK(a, p, q) == p < NDim(a) /\ q < NDim(a)

SwapAxes(a, p, q) ==
    Arr(SwapSeq(a.shape, p + 1, q + 1), [i \in Idx(SwapSeq(a.shape, p + 1, q + 1)) |-> a.at[SwapSeq(i, p + 1, q + 1)]])

\* A 1-D array as the sequence of its values.
Seq1(a) == [k \in 1..a.shape[1] |-> a.at[<<k>>]]

\* a[k], and the rows a yields when iterated over.
Row(a, k) == Arr(Tail(a.shape), [i \in Idx(Tail(a.shape)) |-> a.at[<<k>> \o i]])

Rows(a) == [k \in 1..Head(a.shape) |-> Row(a, k)]

\* The values along axis 0 at one coordinate of the other axes.
Column(a, i) == [k \in 1..Head(a.shape) |-> a.at[<<k>> \o i]]

\* np.stack(list, 0) and np.stack(list, -1) of arrays of one shape.
Stack0(list) ==
    Arr(<<Len(list)>> \o list[1].shape, [i \in Idx(<<Len(list)>> \o list[1].shape) |-> list[Head(i)].at[Tail(i)]])

StackLast(list) ==
    Arr(list[1].shape \o <<Len(list)>>,
        [i \in Idx(list[1].shape \o <<Len(list)>>) |-> list[i[Len(i)]].at[SubSeq(i, 1, Len(i) - 1)]])

\* Indices selected by a boolean mask, in order.
RECURSIVE TrueIdxFrom(_, _)
TrueIdxFrom(mask, k) ==
    IF k > Len(mask) THEN <<>>
    ELSE (IF mask[k] THEN <<k>> ELSE <<>>) \o TrueIdxFrom(mask, k + 1)

TrueIdx(mask) == TrueIdxFrom(mask, 1)

\* A slip that would drop the negation of ~recalled.
Invert_NoNegation(mask) == mask

\* ~mask
Invert(mask) == [i \in 1..Len(mask) |-> ~mask[i]]

\* a[mask] raises IndexError unless the mask is as long as axis 0.
MaskOK(a, mask) == Len(mask) = Head(a.shape)

MaskSelect(a, mask) ==
    LET sel == TrueIdx(mask)
    IN  Arr(<<Len(sel)>> \o Tail(a.shape), [i \in Idx(<<Len(sel)>> \o Tail(a.shape)) |-> a.at[<<sel[Head(i)]>> \o Tail(i)]])

\* a.mean(axis=0), np.nanmean(a, axis=0), a - b
Mean0(a) == Arr(Tail(a.shape), [i \in Idx(Tail(a.shape)) |-> Mean(Column(a, i))])

NanMean0(a) == Arr(Tail(a.shape), [i \in Idx(Tail(a.shape)) |-> NanMean(Column(a, i))])

ArrSub(a, b) == Arr(a.shape, [i \in Idx(a.shape) |-> RSub(a.at[i], b.at[i])])


\* ttest_ind(a, b, axis=0): .statistic and .pvalue
TTestStat0(a, b) == Arr(Tail(a.shape), [i \in Idx(Tail(a.shape)) |-> TStat(Column(a, i), Column(b, i))])

TTestP0(a, b) == Arr(Tail(a.shape), [i \in Idx(Tail(a.shape)) |-> PValue(Column(a, i), Column(b, i))])

(***************************************************************************)
(* The two fitters.  A fitter returns [ok, err, slopes, offsets, resids];  *)
(* ok = FALSE stands for the exception err leaving the fitter.             *)
(*                                                                         *)
(* Frequencies are 1, 10, 100, ... so that log10 is exact.                 *)
(***************************************************************************)
Freqs(nf) == [k \in 1..nf |-> Pow(10, k - 1)]

RECURSIVE Log10(_)
Log10(n) == IF n < 10 THEN 0 ELSE 1 + Log10(n \div 10)

\* sm.tools.tools.add_constant(np.log10(self.freqs)): rows (1, log10 f).
AddConstantLog10(freqs) == [k \in 1..Len(freqs) |-> <<1, Log10(freqs[k])>>]

Empty == [shape |-> <<0>>, at |-> <<>>]

Raised(e) == [ok |-> FALSE, err |-> e, slopes |-> Empty, offsets |-> Empty,
              resids |-> Empty]

\* Least squares of the spectrum y (a sequence) on a constant and xs.
LstSq(y, xs) ==
    LET n == Len(xs)
        sx == RSum([k \in 1..n |-> Num(xs[k])])
        sxx == RSum([k \in 1..n |-> Num(xs[k] * xs[k])])
        sy == RSum(y)
        sxy == RSum([k \in 1..n |-> RMul(Num(xs[k]), y[k])])
        det == RSub(RMul(Num(n), sxx), RMul(sx, sx))
        slope == RDiv(RSub(RMul(Num(n), sxy), RMul(sx, sy)), det)
        offset == RDiv(RSub(RMul(sy, sxx), RMul(sx, sxy)), det)
    IN  [offset |-> offset, slope |-> slope,
         resid |-> [k \in 1..n |->
                      RSub(RSub(y[k], offset), RMul(slope, Num(xs[k])))]]

\* RLM(endog, exog, M=LeastSquares()).fit(): every weight is 1, so the fit
\* is ordinary least squares; params = (const, slope).  A not-a-number in
\* endog makes params and resid not-a-number.
RlmFit(endog, exog) ==
    LET f == LstSq(Seq1(endog), [k \in 1..Len(exog) |-> exog[k][2]])
    IN  [params |-> <<f.offset, f.slope>>, resid |-> f.resid]

\* FOOOF.add_data(freqs, power_spectrum) takes one 1-D spectrum as long as
\* freqs and raises ValueError for anything else.
FooofAddDataOK(freqs, spectrum) == spectrum.shape = <<Len(freqs)>>

\* FOOOF.fit() on the spectrum given to add_data.  The library is not part
\* of the repository: the stand-in fits the background line
\* offset - slope*log10(f) and takes what is left as the peak fit.
FooofFit(freqs, spectrum) ==
    LET f == LstSq(Seq1(spectrum), [k \in 1..Len(freqs) |-> Log10(freqs[k])])
    IN  [background_params_ |-> <<f.offset, RNeg(f.slope)>>, _peak_fit |-> f.resid]

HasNaN(a) == \E i \in DOMAIN a.at : IsNaN(a.at[i])

\* res_shape of lines 323 and 359.
ResShape(y) ==
    IF NDim(y) = 3 THEN <<y.shape[1], y.shape[3]>> ELSE <<y.shape[1]>>

\* freq_dim / freq_dim_num of lines 333-334 and 366-367: the first axis of
\* this_event whose length is len(x); -1 when np.where finds none.
FreqDimNum(event_shape, lenx) ==
    IF event_shape[1] = lenx THEN 0
    ELSE IF event_shape[2] = lenx THEN 1
    ELSE -1

\* this_event of lines 331 and 364, and this_event_sub of lines 337 and 370
\* after the transpose of lines 336 and 369 (freq_dim_num = 0).
Event(y, i) == Row(y, i)

EventSub(y, i, j) == Row(Transpose(Event(y, i)), j)

\* What line 338 hands to fm.add_data for event i, sub-unit j: y itself.
FoofInput(y, i, j) == y

AxisError(y, lenx) ==
    IF NDim(y) # 3 THEN "none"
    ELSE IF FreqDimNum(Tail(y.shape), lenx) = -1 THEN "IndexError"
    ELSE IF FreqDimNum(Tail(y.shape), lenx) = 1 THEN "ValueError"
    ELSE "none"

\* What ends robust_reg(x, y) early ("none": nothing).  The loop of line 364
\* takes the events in order.  In a 3-D unit line 367 raises at event 1 when
\* no axis is as long as x; with the frequencies on axis 1 the fit of line
\* 373 runs first and only then the store of line 376 raises.  In a 2-D unit
\* RLM (line 378) refuses at event 1 a row that is not as long as x.
RegRaise(x, y, fail) ==
    IF NDim(y) = 3
    THEN CASE AxisError(y, Len(x)) = "IndexError" -> "IndexError"
           [] AxisError(y, Len(x)) = "ValueError" ->
                  IF fail = 1 THEN "FitError" ELSE "ValueError"
           [] OTHER -> IF fail # 0 THEN "FitError" ELSE "none"
    ELSE IF y.shape[2] # Len(x) THEN "ValueError"
    ELSE IF fail # 0 THEN "FitError"
    ELSE "none"

\* robust_reg(x, y).  fail is the event whose rlm.fit() raises (0: none).
robust_reg(x, y, fail) ==
    IF RegRaise(x, y, fail) # "none" THEN Raised(RegRaise(x, y, fail))
    ELSE IF NDim(y) = 3 THEN
        [ok |-> TRUE, err |-> "none",
         slopes |-> Arr(ResShape(y),
                        [i \in Idx(ResShape(y)) |-> RlmFit(EventSub(y, i[1], i[2]), x).params[2]]),
         offsets |-> Arr(ResShape(y),
                         [i \in Idx(ResShape(y)) |-> RlmFit(EventSub(y, i[1], i[2]), x).params[1]]),
         resids |-> Arr(y.shape,
                        [i \in Idx(y.shape) |-> RlmFit(EventSub(y, i[1], i[3]), x).resid[i[2]]])]
    ELSE
        [ok |-> TRUE, err |-> "none",
         slopes |-> Arr(ResShape(y), [i \in Idx(ResShape(y)) |-> RlmFit(Event(y, i[1]), x).params[2]]),
         offsets |-> Arr(ResShape(y), [i \in Idx(ResShape(y)) |-> RlmFit(Event(y, i[1]), x).params[1]]),
         resids |-> Arr(y.shape, [i \in Idx(y.shape) |-> RlmFit(Event(y, i[1]), x).resid[i[2]]])]

\* The first event of y holding a not-a-number (0: none).
FirstNaNEvent(y) ==
    LET bad == {i \in 1..y.shape[1] : HasNaN(Row(y, i))}
    IN  IF bad = {} THEN 0 ELSE CHOOSE i \in bad : \A k \in bad : i <= k

\* The loop of line 331 takes the events in order, so the first event whose
\* fm.fit() raises decides the exception: the event fail raises FitError, an
\* event holding a not-a-number raises ValueError when the library does so.
FoofRaise(y, fail, nan_raises) ==
    LET nan == IF nan_raises THEN FirstNaNEvent(y) ELSE 0
    IN  IF nan # 0 /\ (fail = 0 \/ nan <= fail) THEN "ValueError"
        ELSE IF fail # 0 THEN "FitError"
        ELSE "none"

\* run_foof(x, y).  fail is the event whose fm.fit() raises (0: none);
\* nan_raises says whether the library raises for a spectrum holding a
\* not-a-number or returns not-a-number parameters.
run_foof(x, y, fail, nan_raises) ==
    IF AxisError(y, Len(x)) # "none" THEN Raised(AxisError(y, Len(x)))
    ELSE IF NDim(y) = 3 THEN
        IF ~FooofAddDataOK(x, FoofInput(y, 1, 1)) THEN Raised("ValueError")
        ELSE IF FoofRaise(y, fail, nan_raises) # "none"
        THEN Raised(FoofRaise(y, fail, nan_raises))
        ELSE
            [ok |-> TRUE, err |-> "none",
             slopes |-> Arr(ResShape(y), [i \in Idx(ResShape(y)) |-> FooofFit(x, FoofInput(y, i[1], i[2])).background_params_[2]]),
             offsets |-> Arr(ResShape(y), [i \in Idx(ResShape(y)) |-> FooofFit(x, FoofInput(y, i[1], i[2])).background_params_[1]]),
             resids |-> Arr(y.shape, [i \in Idx(y.shape) |-> FooofFit(x, FoofInput(y, i[1], i[3]))._peak_fit[i[2]]])]
    ELSE IF ~FooofAddDataOK(x, Event(y, 1)) THEN Raised("ValueError")
    ELSE IF FoofRaise(y, fail, nan_raises) # "none"
    THEN Raised(FoofRaise(y, fail, nan_raises))
    ELSE
        [ok |-> TRUE, err |-> "none",
         slopes |-> Arr(ResShape(y),
                        [i \in Idx(ResShape(y)) |-> FooofFit(x, Event(y, i[1])).background_params_[2]]),
         offsets |-> Arr(ResShape(y),
                         [i \in Idx(ResShape(y)) |-> FooofFit(x, Event(y, i[1])).background_params_[1]]),
         resids |-> Arr(y.shape, [i \in Idx(y.shape) |-> FooofFit(x, Event(y, i[1]))._peak_fit[i[2]]])]

(***************************************************************************)
(* The subject's data.  subject_data is None or [origin, shape, nan]: the  *)
(* power array of that shape, (events, F, E) or (events, F, E, T), whose   *)
(* event nan (0: none) has a not-a-number power at the first frequency of  *)
(* the first electrode (and time bin).                                     *)
(***************************************************************************)
None == [origin |-> "None", shape |-> <<>>, nan |-> 0]

Power(i) ==
    LET t == IF Len(i) = 4 THEN i[4] ELSE 1
    IN  1 + ((i[1] * i[1] + i[1] * i[3] + i[2] * i[3] + i[1] * i[2] * t + t) % 3)

\* self.subject_data.data
DataOf(sd) ==
    Arr(sd.shape,
        [i \in Idx(sd.shape) |-> IF sd.nan # 0 /\ i[1] = sd.nan /\ \A k \in 2..Len(i) : i[k] = 1
                   THEN NaN ELSE Num(Power(i))])

Shapes ==
    {<<MaxEvents, f, e>> : f \in 2..MaxFreqs, e \in 1..MaxElecs}
    \cup {<<MaxEvents, f, e, t>> : f \in 2..MaxFreqs, e \in 1..MaxElecs,
                                   t \in 1..MaxTime}

DataSets ==
    {[origin |-> "computed", shape |-> s, nan |-> n] : s \in Shapes, n \in {0, 1}}

\* What recall_filter_func may return for data of n events: the first k
\* events recalled (none, some, all), every other event recalled, and two
\* vectors that are not aligned with the events.
RecallVectors(n) ==
    {[i \in 1..n |-> i <= k] : k \in 0..n}
    \cup {[i \in 1..n |-> i % 2 = 0]}
    \cup {[i \in 1..(n - 1) |-> i = 1], [i \in 1..(n + 1) |-> i = 1]}

(***************************************************************************)
(* analysis(), lines 99-141: the contrast and the stores into self.res.    *)
(***************************************************************************)
Range(s) == {s[i] : i \in DOMAIN s}

\* A pool that would return the results in the order the units finished.
Collect_CompletionOrder(done) == [i \in 1..Len(done) |-> done[i].out]

\* The list Parallel returns: the result of unit i at index i.
Collect(done) ==
    [i \in 1..Len(done) |-> (CHOOSE c \in Range(done) : c.u = i).out]

\* np.nanmean(a[recalled], axis=0) - np.nanmean(a[~recalled], axis=0)
DeltaOf(a, rec) ==
    ArrSub(NanMean0(MaskSelect(a, rec)), NanMean0(MaskSelect(a, Invert(rec))))

\* ttest_ind(a[recalled], a[~recalled], axis=0)
TsOf(a, rec) == TTestStat0(MaskSelect(a, rec), MaskSelect(a, Invert(rec)))

PsOf(a, rec) == TTestP0(MaskSelect(a, rec), MaskSelect(a, Invert(rec)))

PerUnit(list) == StackLast(list)

Item(key, a, swap, p, q) == [key |-> key, a |-> a, swap |-> swap, p |-> p, q |-> q]

\* np.mean(recalled) and recalled as arrays.
PRecall(rec) == Arr(<<>>, [i \in Idx(<<>>) |-> Rat(Len(TrueIdx(rec)), Len(rec))])

RecalledArr(rec) == Arr(<<Len(rec)>>, [i \in Idx(<<Len(rec)>>) |-> Num(IF rec[i[1]] THEN 1 ELSE 0)])

\* Lines 102-129: the stores of the per-event branch, in order, each with
\* the axes its swap-back names.
PerEventItems(fr, rec) ==
    << Item("ts_resid", PerUnit([u \in 1..Len(fr) |-> TsOf(fr[u].resids, rec)]), TRUE, 1, 2),
       Item("ps_resid", PerUnit([u \in 1..Len(fr) |-> PsOf(fr[u].resids, rec)]), TRUE, 1, 2),
       Item("ts_slopes", PerUnit([u \in 1..Len(fr) |-> TsOf(fr[u].slopes, rec)]), TRUE, 0, 1),
       Item("ps_slopes", PerUnit([u \in 1..Len(fr) |-> PsOf(fr[u].slopes, rec)]), TRUE, 0, 1),
       Item("ts_offsets", PerUnit([u \in 1..Len(fr) |-> TsOf(fr[u].offsets, rec)]), TRUE, 0, 1),
       Item("ps_offsets", PerUnit([u \in 1..Len(fr) |-> PsOf(fr[u].offsets, rec)]), TRUE, 0, 1) >>

\* Lines 102-107 and 137-141.
PerEventDeltas(fr, rec) ==
    << Item("delta_resid", PerUnit([u \in 1..Len(fr) |-> DeltaOf(fr[u].resids, rec)]), TRUE, 1, 2),
       Item("delta_slopes", PerUnit([u \in 1..Len(fr) |-> DeltaOf(fr[u].slopes, rec)]), TRUE, 1, 2),
       Item("delta_offsets", PerUnit([u \in 1..Len(fr) |-> DeltaOf(fr[u].offsets, rec)]), TRUE, 1, 2),
       Item("p_recall", PRecall(rec), FALSE, 0, 0),
       Item("recalled", RecalledArr(rec), FALSE, 0, 0) >>

\* Lines 132-134 and 137-141: x[k][0] - x[k][1] of the two condition means.
MeanOnlyDeltas(fr, rec) ==
    << Item("delta_resid",
            PerUnit([u \in 1..Len(fr) |-> ArrSub(Row(fr[u].resids, 1), Row(fr[u].resids, 2))]), TRUE, 1, 2),
       Item("delta_slopes",
            PerUnit([u \in 1..Len(fr) |-> ArrSub(Row(fr[u].slopes, 1), Row(fr[u].slopes, 2))]), TRUE, 1, 2),
       Item("delta_offsets",
            PerUnit([u \in 1..Len(fr) |-> ArrSub(Row(fr[u].offsets, 1), Row(fr[u].offsets, 2))]), TRUE, 1, 2),
       Item("p_recall", PRecall(rec), FALSE, 0, 0),
       Item("recalled", RecalledArr(rec), FALSE, 0, 0) >>

Put(r, key, v) == [x \in (DOMAIN r) \cup {key} |-> IF x = key THEN v ELSE r[x]]

\* self.res[key] = a if not is_swapped else np.swapaxes(a, p, q), item after
\* item, until a swapaxes raises.
RECURSIVE StoreFrom(_, _, _, _)
StoreFrom(r, w, items, swapped) ==
    IF items = <<>> THEN [res |-> r, written |-> w, ok |-> TRUE]
    ELSE LET it == Head(items)
         IN  IF it.swap /\ swapped /\ ~SwapAxesOK(it.a, it.p, it.q)
             THEN [res |-> r, written |-> w, ok |-> FALSE]
             ELSE StoreFrom(Put(r, it.key,
                                IF it.swap /\ swapped THEN SwapAxes(it.a, it.p, it.q)
                                ELSE it.a),
                            w \cup {it.key}, Tail(items), swapped)

\* A test of line 99 that sends every FOOOF run to the mean-only branch.
PerEventMode_RobustOnly == ~use_fooof

\* The tests of lines 99 and 131.
PerEventMode == (~use_fooof) \/ (use_fooof /\ fooof_fit_each_event)

MeanOnlyMode == use_fooof /\ ~fooof_fit_each_event

(***************************************************************************)
(* analysis(), lines 58-97: the checks, the axis swap, the choice of the   *)
(* fitter and the units handed to Parallel.                                *)
(***************************************************************************)
n_jobs == 12

NoRes == [x \in {} |-> Empty]

\* Lines 73-76.
NeedSwap(p) == NDim(p) = 4 /\ p.shape[4] < p.shape[3]

Normalize(p) == IF NeedSwap(p) THEN SwapAxes(p, 2, 3) ELSE p

\* Lines 85-90: for fooof with logged power, p_spects is read again from
\* self.subject_data.data and exponentiated.
FooofPower(data, p) == IF log_power THEN Arr(data.shape, [i \in Idx(data.shape) |-> Pow10(data.at[i])]) ELSE p

\* Line 94.
ConditionMeans(p, rec) ==
    Stack0(<<Mean0(MaskSelect(p, rec)), Mean0(MaskSelect(p, Invert(rec)))>>)

\* Line 97: y.T for y in p_spects.T
UnitsOf(p) == [u \in 1..Head(Transpose(p).shape) |-> Transpose(Row(Transpose(p), u))]

\* x of lines 81 and 87.
FitX == IF use_fooof THEN Freqs(num_freqs) ELSE AddConstantLog10(Freqs(num_freqs))

\* p_spects as line 97 reads it.
PSpects(data) ==
    IF ~use_fooof THEN Normalize(data)
    ELSE IF MeanOnlyMode
    THEN ConditionMeans(FooofPower(data, Normalize(data)), recalled)
    ELSE FooofPower(data, Normalize(data))

Fail(e) ==
    /\ pc' = "error"
    /\ err' = e

\* Lines 58-97 up to the call of Parallel: the exception raised on the way
\* ("none" if none), is_swapped and the units.
Prepare ==
    IF ~has_filter
    THEN [err |-> "TypeError", is_swapped |-> FALSE, units |-> <<>>]
    ELSE IF subject_data = None
    THEN [err |-> "AttributeError", is_swapped |-> FALSE, units |-> <<>>]
    ELSE IF MeanOnlyMode /\ Len(recalled) # subject_data.shape[1]
    THEN [err |-> "IndexError", is_swapped |-> NeedSwap(DataOf(subject_data)),
          units |-> <<>>]
    ELSE [err |-> "none", is_swapped |-> NeedSwap(DataOf(subject_data)),
          units |-> UnitsOf(PSpects(DataOf(subject_data)))]

StartWith(plan) ==
    /\ is_swapped' = plan.is_swapped
    /\ units' = plan.units
    /\ err' = plan.err
    /\ pc' = IF plan.err = "none" THEN "fitting" ELSE "error"

AnalysisStart ==
    /\ pc = "idle"
    /\ runs' = runs + 1
    /\ dispatched' = 0
    /\ completed' = <<>>
    /\ fit_res' = <<>>
    /\ written' = {}
    /\ StartWith(Prepare)
    /\ UNCHANGED <<pipeVars, ioVars, cfgVars, subject_data, res>>

(***************************************************************************)
(* Parallel(n_jobs=12): units are handed out in order, at most n_jobs at a  *)
(* time, finish in any order, and an exception in one unit ends the run.   *)
(***************************************************************************)
Finished == {completed[k].u : k \in DOMAIN completed}

Dispatch ==
    /\ pc = "fitting"
    /\ dispatched < Len(units)
    /\ dispatched - Len(completed) < n_jobs
    /\ dispatched' = dispatched + 1
    /\ UNCHANGED <<pipeVars, ioVars, cfgVars, subject_data, res, pc, err, is_swapped,
                   units, completed, fit_res, written, runs>>

\* f(x, y.T) of line 97 for one unit.
Fitter(y, fail, nan_raises) ==
    IF use_fooof THEN run_foof(FitX, y, fail, nan_raises)
    ELSE robust_reg(FitX, y, fail)

DoneWith(u, fail, out) ==
    /\ completed' = Append(completed, [u |-> u, fail |-> fail, out |-> out])
    /\ IF out.ok THEN UNCHANGED <<pc, err>> ELSE Fail(out.err)

WorkerDone(u, fail, nan_raises) ==
    /\ pc = "fitting"
    /\ u \in 1..dispatched
    /\ u \notin Finished
    /\ DoneWith(u, fail, Fitter(units[u], fail, nan_raises))
    /\ UNCHANGED <<pipeVars, ioVars, cfgVars, subject_data, res, is_swapped, units,
                   dispatched, fit_res, written, runs>>

\* Lines 99-141 on the list fr that Parallel returned: the new self.res, the
\* keys assigned and whether the last line was reached.
StoreDeltas(first, fr) ==
    IF ~first.ok THEN first
    ELSE StoreFrom(first.res, first.written,
                   IF PerEventMode THEN PerEventDeltas(fr, recalled)
                   ELSE MeanOnlyDeltas(fr, recalled),
                   is_swapped)

Contrast(fr) ==
    IF PerEventMode /\ ~MaskOK(fr[1].resids, recalled)
    THEN [res |-> res, written |-> {}, ok |-> FALSE, err |-> "IndexError"]
    ELSE LET last == StoreDeltas(IF PerEventMode
                                 THEN StoreFrom(res, {}, PerEventItems(fr, recalled),
                                                is_swapped)
                                 ELSE [res |-> res, written |-> {}, ok |-> TRUE],
                                 fr)
         IN  [res |-> last.res, written |-> last.written, ok |-> last.ok,
              err |-> IF last.ok THEN "none" ELSE "AxisError"]

JoinWith(fr, out) ==
    /\ fit_res' = fr
    /\ res' = out.res
    /\ written' = out.written
    /\ err' = out.err
    /\ pc' = IF out.ok THEN "done" ELSE "error"

\* Lines 97-141 after the last unit has finished.
AnalysisJoin ==
    /\ pc = "fitting"
    /\ Len(completed) = Len(units)
    /\ JoinWith(Collect(completed), Contrast(Collect(completed)))
    /\ UNCHANGED <<pipeVars, ioVars, cfgVars, subject_data, is_swapped, units, dispatched,
                   completed, runs>>

\* Between two runs the user sets the attributes of the object anew.
SetAttributes(uf, fe, lp) ==
    /\ pc \in {"done", "error"}
    /\ runs < MaxRuns
    /\ use_fooof' = uf
    /\ fooof_fit_each_event' = fe
    /\ log_power' = lp
    /\ pc' = "idle"
    /\ err' = "none"
    /\ is_swapped' = FALSE
    /\ units' = <<>>
    /\ dispatched' = 0
    /\ completed' = <<>>
    /\ fit_res' = <<>>
    /\ written' = {}
    /\ UNCHANGED <<pipeVars, ioVars, subject_data, has_filter, recalled, num_freqs, res, runs>>

NoLoad ==
    [called |-> FALSE, load |-> FALSE, compute |-> FALSE, do_not_compute |-> FALSE,
     force_recompute |-> FALSE, file_existed |-> FALSE]

InitIO ==
    /\ subject = "R1001P"
    /\ file_exists = FALSE
    /\ load_data_if_file_exists = TRUE
    /\ do_not_compute = FALSE
    /\ force_recompute = FALSE
    /\ load_calls = NoLoad
    /\ compute_overridden = TRUE

\* No pipeline was built.
InitNoPipeline ==
    /\ dicts = <<>>
    /\ analyses = <<>>
    /\ pipeline_res = 0
    /\ prev_res = 0
    /\ ana_num = 0
    /\ run_pc = "none"
    /\ ran = <<>>

InitRun ==
    /\ res = NoRes
    /\ pc = "idle"
    /\ err = "none"
    /\ is_swapped = FALSE
    /\ units = <<>>
    /\ dispatched = 0
    /\ completed = <<>>
    /\ fit_res = <<>>
    /\ written = {}
    /\ runs = 0

Init ==
    /\ InitIO
    /\ InitRun
    /\ InitNoPipeline
    /\ use_fooof \in BOOLEAN
    /\ fooof_fit_each_event \in BOOLEAN
    /\ log_power \in BOOLEAN
    /\ \/ /\ subject_data \in DataSets
          /\ has_filter = TRUE
          /\ recalled \in RecallVectors(subject_data.shape[1])
          /\ num_freqs = subject_data.shape[2]
       \/ /\ subject_data \in DataSets
          /\ subject_data.nan = 0
          /\ has_filter = FALSE
          /\ recalled = <<>>
          /\ num_freqs = subject_data.shape[2]
       \/ /\ subject_data = None
          /\ has_filter \in BOOLEAN
          /\ recalled = <<>>
          /\ num_freqs = 2

Worker ==
    \E u \in 1..Len(units), fail \in 0..MaxFailEvent, nan_raises \in BOOLEAN :
        /\ nan_raises \/ (use_fooof /\ HasNaN(units[u]))
        /\ WorkerDone(u, fail, nan_raises)

Rerun == \E uf, fe, lp \in BOOLEAN : SetAttributes(uf, fe, lp)

\* One run of analysis() on an object.
Next ==
    \/ AnalysisStart
    \/ Dispatch
    \/ Worker
    \/ AnalysisJoin

Spec == Init /\ [][Next]_vars

\* Runs of analysis() on one object, the attributes set anew in between.
NextRerun ==
    \/ Next
    \/ Rerun

SpecRerun == Init /\ [][NextRerun]_vars

(***************************************************************************)
(* SubjectDataBase (subject.py): load_data, unload_data, save_data.        *)
(* save_file is taken to be set; file_exists is os.path.exists of it.      *)
(***************************************************************************)
LoadShape == <<MaxEvents, 2, 1>>

\* What joblib.load(self.save_file) and self.compute_data() return.
FileData == [origin |-> "file", shape |-> LoadShape, nan |-> 0]

ComputedData == [origin |-> "computed", shape |-> LoadShape, nan |-> 0]

\* Lines 209-214: compute_data() as shipped returns None; a class that
\* overrides it returns the data it computed.
compute_data == IF compute_overridden THEN ComputedData ELSE None

\* Lines 148-178: subject_data after load_data(), and the calls it made.
LoadOutcome ==
    IF subject = "None"
    THEN [data |-> subject_data, load |-> FALSE, compute |-> FALSE]
    ELSE IF file_exists /\ force_recompute
    THEN [data |-> subject_data, load |-> FALSE, compute |-> FALSE]
    ELSE IF ~file_exists /\ do_not_compute
    THEN [data |-> subject_data, load |-> FALSE, compute |-> FALSE]
    ELSE IF file_exists /\ load_data_if_file_exists
    THEN [data |-> FileData, load |-> TRUE, compute |-> FALSE]
    ELSE IF subject_data = None
    THEN [data |-> compute_data, load |-> FALSE, compute |-> TRUE]
    ELSE [data |-> subject_data, load |-> FALSE, compute |-> FALSE]

LoadWith(out) ==
    /\ subject_data' = out.data
    /\ load_calls' = [called |-> TRUE, load |-> out.load, compute |-> out.compute,
                      do_not_compute |-> do_not_compute,
                      force_recompute |-> force_recompute,
                      file_existed |-> file_exists]

load_data ==
    /\ LoadWith(LoadOutcome)
    /\ UNCHANGED <<pipeVars, compute_overridden, subject, file_exists, load_data_if_file_exists, do_not_compute,
                   force_recompute, cfgVars, res, runVars>>

unload_data ==
    /\ subject_data # None
    /\ subject_data' = None
    /\ UNCHANGED <<pipeVars, ioVars, cfgVars, res, runVars>>

\* Lines 187-207: nothing is written without data.
save_data ==
    /\ file_exists' = (file_exists \/ subject_data # None)
    /\ UNCHANGED <<pipeVars, compute_overridden, subject, load_data_if_file_exists, do_not_compute,
                   force_recompute, load_calls, subject_data, cfgVars, res, runVars>>

\* The user sets the attributes of lines 138-140, or the subject.
SetLoadAttributes(l, d, f) ==
    /\ load_data_if_file_exists' = l
    /\ do_not_compute' = d
    /\ force_recompute' = f
    /\ UNCHANGED <<pipeVars, compute_overridden, subject, file_exists, load_calls, subject_data, cfgVars, res,
                   runVars>>

SetSubject(sub) ==
    /\ subject' = sub
    /\ UNCHANGED <<pipeVars, compute_overridden, file_exists, load_data_if_file_exists, do_not_compute,
                   force_recompute, load_calls, subject_data, cfgVars, res, runVars>>

InitLoad ==
    /\ subject \in {"None", "R1001P"}
    /\ file_exists \in BOOLEAN
    /\ load_data_if_file_exists = TRUE
    /\ do_not_compute = FALSE
    /\ force_recompute = FALSE
    /\ load_calls = NoLoad
    /\ compute_overridden \in BOOLEAN
    /\ subject_data = None
    /\ has_filter = FALSE
    /\ recalled = <<>>
    /\ use_fooof = FALSE
    /\ fooof_fit_each_event = FALSE
    /\ log_power = FALSE
    /\ num_freqs = 2
    /\ InitRun
    /\ InitNoPipeline

SetLoad == \E l, d, f \in BOOLEAN : SetLoadAttributes(l, d, f)

SetSub == \E sub \in {"None", "R1001P"} : SetSubject(sub)

NextLoad ==
    \/ load_data
    \/ unload_data
    \/ save_data
    \/ SetLoad
    \/ SetSub

SpecLoad == InitLoad /\ [][NextLoad]_vars

(***************************************************************************)
(* SubjectAnalysisPipeline (subject.py, lines 37-105).  A dict is an       *)
(* object: dicts[r] holds the entries of the dict with reference r, and    *)
(* two attributes holding the same reference share every later write.      *)
(***************************************************************************)
anaVars == <<ioVars, subject_data, cfgVars, res, runVars>>

AnalysisNames == {"SubjectFitSpectraAnalysis", "SubjectSMEAnalysis"}

\* The lists of at most n names.
NameLists(n) == UNION {[1..k -> AnalysisNames] : k \in 0..n}

\* The pipeline has its attributes analyses and res: pipeline_res is a
\* reference.  The constructor sets both (lines 71, 74) or neither.
Built == pipeline_res # 0

\* Lines 58-74 with _create_analyses (76-91).  entered: both lists were given
\* (line 58); n_params: the length of analysis_params_list (line 62).  The
\* constructor returns at line 60 or 64 without setting analyses and res;
\* otherwise every analysis object is created with a res dict of its own,
\* then the pipeline gets its own.
InitPipeline ==
    /\ \E names \in NameLists(MaxAnalyses), entered \in BOOLEAN,
          n_params \in 0..MaxAnalyses :
          IF entered /\ n_params = Len(names)
          THEN /\ analyses = [i \in 1..Len(names) |-> [name |-> names[i], res |-> i]]
               /\ dicts = [i \in 1..Len(names) + 1 |-> {}]
               /\ pipeline_res = Len(names) + 1
          ELSE /\ analyses = <<>>
               /\ dicts = <<>>
               /\ pipeline_res = 0
    /\ prev_res = 0
    /\ ana_num = 0
    /\ run_pc = "idle"
    /\ ran = <<>>

\* The position after the loop head of line 100 with ana_num = n.
LoopHead(n) == IF n < Len(analyses) THEN "assign" ELSE "end"

\* Line 99: prev_res = {}, a new dict; line 100 then reads self.analyses,
\* which raises AttributeError on a pipeline without the attribute.
RunBegin ==
    /\ run_pc = "idle"
    /\ dicts' = Append(dicts, {})
    /\ prev_res' = Len(dicts) + 1
    /\ ana_num' = 0
    /\ run_pc' = IF Built THEN LoopHead(0) ELSE "AttributeError"
    /\ UNCHANGED <<analyses, pipeline_res, ran, anaVars>>

\* Lines 101-102: every analysis but the first is handed prev_res.
RunAssign ==
    /\ run_pc = "assign"
    /\ analyses' = IF ana_num > 0
                   THEN [analyses EXCEPT ![ana_num + 1].res = prev_res]
                   ELSE analyses
    /\ run_pc' = "call"
    /\ UNCHANGED <<dicts, pipeline_res, prev_res, ana_num, ran, anaVars>>

\* What analysis.run() of line 103 can do to the res of analysis a: write
\* entries into the dict it holds, bind res to a new dict, leave it, or raise.
RunEffects == {"write", "rebind", "none", "raise"}

Entry(a) == <<a, analyses[a].name>>

DictsAfter(a, effect) ==
    CASE effect = "write" ->
             [dicts EXCEPT ![analyses[a].res] = @ \cup {Entry(a)}]
      [] effect = "rebind" -> Append(dicts, {Entry(a)})
      [] OTHER -> dicts

ResAfter(a, effect) ==
    IF effect = "rebind" THEN Len(dicts) + 1 ELSE analyses[a].res

AnalysisRun(effect) ==
    /\ run_pc = "call"
    /\ dicts' = DictsAfter(ana_num + 1, effect)
    /\ analyses' = [analyses EXCEPT ![ana_num + 1].res = ResAfter(ana_num + 1, effect)]
    /\ ran' = Append(ran, [ana |-> ana_num + 1,
                           started_with |-> analyses[ana_num + 1].res,
                           start_entries |-> dicts[analyses[ana_num + 1].res],
                           res |-> ResAfter(ana_num + 1, effect),
                           entries |-> DictsAfter(ana_num + 1, effect)
                                           [ResAfter(ana_num + 1, effect)]])
    /\ run_pc' = IF effect = "raise" THEN "error" ELSE "keep"
    /\ UNCHANGED <<pipeline_res, prev_res, ana_num, anaVars>>

\* Line 104 without its effect: prev_res keeps the dict of line 99.
KeptRes_Stale(a) == prev_res

\* Line 104: prev_res = analysis.res.
KeptRes(a) == analyses[a].res

RunKeep ==
    /\ run_pc = "keep"
    /\ prev_res' = KeptRes(ana_num + 1)
    /\ ana_num' = ana_num + 1
    /\ run_pc' = LoopHead(ana_num + 1)
    /\ UNCHANGED <<dicts, analyses, pipeline_res, ran, anaVars>>

\* Line 105: self.res = prev_res.
RunEnd ==
    /\ run_pc = "end"
    /\ pipeline_res' = prev_res
    /\ run_pc' = "returned"
    /\ UNCHANGED <<dicts, analyses, prev_res, ana_num, ran, anaVars>>

RunAnalysis == \E effect \in RunEffects : AnalysisRun(effect)

InitPipe ==
    /\ InitIO
    /\ InitRun
    /\ subject_data = None
    /\ has_filter = FALSE
    /\ recalled = <<>>
    /\ use_fooof = FALSE
    /\ fooof_fit_each_event = FALSE
    /\ log_power = FALSE
    /\ num_freqs = 2
    /\ InitPipeline

NextPipe ==
    \/ RunBegin
    \/ RunAssign
    \/ RunAnalysis
    \/ RunKeep
    \/ RunEnd

SpecPipe == InitPipe /\ [][NextPipe]_vars

(***************************************************************************)
(* Properties.                                                             *)
(***************************************************************************)
ResidKeys == {"ts_resid", "ps_resid", "delta_resid"}

ScalarKeys == {"ts_slopes", "ps_slopes", "ts_offsets", "ps_offsets",
               "delta_slopes", "delta_offsets"}

TestKeys == {"ts_resid", "ps_resid", "ts_slopes", "ps_slopes", "ts_offsets",
             "ps_offsets"}

DeltaKeys == {"delta_resid", "delta_slopes", "delta_offsets"}

ValidInputs ==
    /\ has_filter
    /\ subject_data # None
    /\ Len(recalled) = subject_data.shape[1]

RunEnded == pc \in {"done", "error"}

\* C1: for every 3-D and 4-D input, with the time axis smaller than and at
\* least as large as the electrode axis, a run whose fits all returned
\* completes, and every array it stored in res has the orientation of the
\* input: (F, E[, T]) for the *_resid arrays, (E[, T]) for the slope and
\* offset arrays.
C1_OutputOrientation ==
    (RunEnded /\ ValidInputs /\ fit_res # <<>>) =>
        /\ pc = "done"
        /\ \A key \in written \cap ResidKeys :
               res[key].shape = Tail(subject_data.shape)
        /\ \A key \in written \cap ScalarKeys :
               res[key].shape = Tail(Tail(subject_data.shape))

\* C2: the list the contrast step consumes holds at every index i the result
\* of the fitter on unit i, whatever the order in which the units finished.
C2_ResultOrder ==
    (fit_res # <<>>) =>
        /\ Len(fit_res) = Len(units)
        /\ \A i \in 1..Len(units) : fit_res[i] = Fitter(units[i], 0, FALSE)

\* C2 witness: a run with several units, one of which finished before a unit
\* of lower index, has been joined.
C2_Witness ==
    /\ pc = "done"
    /\ fit_res # <<>>
    /\ \E k \in DOMAIN completed : completed[k].u # k
    /\ fit_res[1] # fit_res[2]

\* C3: when subject_data or recall_filter_func is missing, or the recall
\* vector is not as long as the event axis, no unit is handed to a fitter.
C3_NoFitOnBadInput == (~ValidInputs) => dispatched = 0

\* C4: when the fit of one event of a unit raises, the fitter still returns
\* for the unit, with not-a-number for that event only and the fitted values
\* for every other event, and the run is not aborted.
C4_FitFailureIsLocal ==
    \A k \in DOMAIN completed :
        LET c == completed[k]
            good == Fitter(units[c.u], 0, FALSE)
        IN  (c.fail # 0 /\ good.ok) =>
                /\ c.out.ok
                /\ pc # "error"
                /\ \A i \in DOMAIN good.slopes.at :
                       c.out.slopes.at[i] = IF i[1] = c.fail THEN NaN
                                            ELSE good.slopes.at[i]

\* ttest_ind and the difference of means at one coordinate after the events
\* whose value there is not-a-number have been removed by hand.
RefDelta(a, b) == RSub(Mean(a), Mean(b))

RefStat(stat, a, b) ==
    CASE stat = "delta" -> RefDelta(a, b)
      [] stat = "ts" -> TStat(a, b)
      [] stat = "ps" -> PValue(a, b)

RefOf(a, rec, stat) ==
    Arr(Tail(a.shape),
        [i \in Idx(Tail(a.shape)) |->
            RefStat(stat, NotNaNs(Column(MaskSelect(a, rec), i)),
                          NotNaNs(Column(MaskSelect(a, Invert(rec)), i)))])

RefMatches(key, pick, stat) ==
    res[key] = PerUnit([u \in 1..Len(fit_res) |-> RefOf(fit_res[u][pick], recalled, stat)])

\* C5: at every coordinate the stored delta, t statistic and p-value equal
\* those computed on the same fits after removing the events whose fitted
\* value there is not-a-number.
C5_NanEventsExcluded ==
    (pc = "done" /\ PerEventMode) =>
        /\ RefMatches("delta_resid", "resids", "delta")
        /\ RefMatches("delta_slopes", "slopes", "delta")
        /\ RefMatches("delta_offsets", "offsets", "delta")
        /\ RefMatches("ts_resid", "resids", "ts")
        /\ RefMatches("ts_slopes", "slopes", "ts")
        /\ RefMatches("ts_offsets", "offsets", "ts")
        /\ RefMatches("ps_resid", "resids", "ps")
        /\ RefMatches("ps_slopes", "slopes", "ps")
        /\ RefMatches("ps_offsets", "offsets", "ps")

OneGroupEmpty ==
    /\ ValidInputs
    /\ \/ \A i \in DOMAIN recalled : recalled[i]
       \/ \A i \in DOMAIN recalled : ~recalled[i]

\* C6: when every event or no event is recalled, every delta, t statistic
\* and p-value a run stores is not-a-number, in every fitting mode (or the
\* run ends in an error): no finite p-value is stored.
C6_EmptyGroupNotANumber ==
    OneGroupEmpty =>
        \A key \in written \cap (TestKeys \cup DeltaKeys) :
            \A i \in DOMAIN res[key].at : IsNaN(res[key].at[i])

\* C6 witness: a run with an empty group has completed and stored p-values.
C6_Witness ==
    /\ OneGroupEmpty
    /\ pc = "done"
    /\ "ps_resid" \in written
    /\ "delta_slopes" \in written

\* C7: after a run in mean-only mode res holds the deltas, p_recall and
\* recalled and no t statistic or p-value, whatever ran before on the object.
C7_MeanOnlyHasNoTests ==
    (pc = "done" /\ MeanOnlyMode) =>
        /\ DeltaKeys \cup {"p_recall", "recalled"} \subseteq DOMAIN res
        /\ (DOMAIN res) \cap TestKeys = {}

Max(a, b) == IF a >= b THEN a ELSE b

\* C8: the units handed to the pool are the slices of the larger of the
\* electrode and time axes of a 4-D input (of the electrode axis of a 3-D
\* input), under every combination of use_fooof, fooof_fit_each_event and
\* log_power.
C8_UnitsOverLargerAxis ==
    (units # <<>>) =>
        Len(units) = IF Len(subject_data.shape) = 4
                     THEN Max(subject_data.shape[3], subject_data.shape[4])
                     ELSE subject_data.shape[3]

\* Both per-event axes of a 3-D unit are as long as the frequency vector.
Ambiguous(y, lenx) == NDim(y) = 3 /\ y.shape[2] = lenx /\ y.shape[3] = lenx

\* C9: a fitter given a 3-D unit whose two per-event axes both have the
\* length of the frequency vector reports an error for the unit instead of
\* taking one of the axes as the frequency axis.
C9_AmbiguousAxisReported ==
    \A k \in DOMAIN completed :
        Ambiguous(units[completed[k].u], Len(FitX)) =>
            /\ ~completed[k].out.ok
            /\ AxisError(units[completed[k].u], Len(FitX)) # "none"

\* C10: a load_data() call made with do_not_compute set never calls
\* compute_data(), whatever the other settings, the file and the data held.
C10_DoNotComputeOverrules ==
    (load_calls.called /\ load_calls.do_not_compute) => ~load_calls.compute

\* C11: a load_data() call made with force_recompute set, do_not_compute
\* unset, the subject set and the save file present calls compute_data() and
\* leaves its result in subject_data, without loading the file.
C11_ForceRecomputeComputes ==
    [][(/\ load_data
        /\ subject # "None"
        /\ file_exists
        /\ force_recompute
        /\ ~do_not_compute)
       => (/\ load_calls'.compute
           /\ ~load_calls'.load
           /\ subject_data' = compute_data)]_vars

\* C12: run() runs the analyses one at a time in list order, every analysis
\* after the first starts its run holding the res the previous analysis
\* ended with, and after run() returns the pipeline's res is the res of the
\* last analysis, or the empty dict when there is none.
C12_PipelinePassesRes ==
    /\ \A k \in 1..Len(ran) :
           /\ ran[k].ana = k
           /\ k > 1 => /\ ran[k].started_with = ran[k - 1].res
                       /\ ran[k].start_entries = ran[k - 1].entries
    /\ (run_pc = "call" /\ ana_num > 0) =>
           /\ Len(ran) = ana_num
           /\ analyses[ana_num + 1].res = ran[ana_num].res
           /\ dicts[analyses[ana_num + 1].res] = ran[ana_num].entries
    /\ run_pc = "returned" =>
           /\ Len(ran) = Len(analyses)
           /\ IF analyses = <<>>
              THEN dicts[pipeline_res] = {}
              ELSE /\ pipeline_res = analyses[Len(analyses)].res
                   /\ pipeline_res = ran[Len(ran)].res
                   /\ dicts[pipeline_res] = ran[Len(ran)].entries

\* run() returned after three analyses of which the second bound its res to
\* a new dict and the third wrote into the dict it was handed.
C12_Witness ==
    /\ run_pc = "returned"
    /\ Len(ran) = 3
    /\ ran[2].res # ran[2].started_with
    /\ ran[3].res = ran[2].res
    /\ ran[3].entries # ran[2].entries

\* What a run leaves in res for the item of this key: the array, with its
\* axes swapped back when the run swapped the input.
StoredOf(items, key) ==
    LET it == CHOOSE x \in Range(items) : x.key = key
    IN  IF it.swap /\ is_swapped THEN SwapAxes(it.a, it.p, it.q) ELSE it.a

BothSet == use_fooof /\ fooof_fit_each_event

\* C13 as stated: with use_fooof and fooof_fit_each_event both set, a
\* completed run holds the t and p entries of the per-event branch and the
\* delta_* values of the mean-only branch, which overwrote the first ones.
C13_BothBranchesRun ==
    (pc = "done" /\ BothSet) =>
        /\ TestKeys \subseteq written
        /\ \A key \in DeltaKeys :
               res[key] = StoredOf(MeanOnlyDeltas(fit_res, recalled), key)

\* C13 amended: with use_fooof and fooof_fit_each_event both set, a completed
\* run executed the per-event branch only: res holds its t and p entries and
\* the delta_* values are the per-event differences of the group means.
C13_PerEventBranchOnly ==
    (pc = "done" /\ BothSet) =>
        /\ TestKeys \subseteq written
        /\ \A key \in DeltaKeys :
               res[key] = StoredOf(PerEventDeltas(fit_res, recalled), key)

\* A completed run with both set whose per-event deltas differ from what the
\* mean-only branch would have stored.
C13_Witness ==
    /\ pc = "done"
    /\ BothSet
    /\ TestKeys \subseteq written
    /\ \A key \in DeltaKeys :
           res[key] # StoredOf(MeanOnlyDeltas(fit_res, recalled), key)

\* C14: for every 3-D unit run_foof finished with no fit failing, the slope,
\* offset and residuals stored at (event i, sub-unit j) are those of the fit
\* of the single spectrum of event i at sub-unit j, the input robust_reg
\* selects for the same unit.
C14_FoofFitsSingleSpectrum ==
    \A k \in 1..Len(completed) :
        LET c == completed[k]
            y == units[c.u]
        IN  (/\ use_fooof
             /\ NDim(y) = 3
             /\ c.fail = 0
             /\ ~HasNaN(y)
             /\ AxisError(y, Len(FitX)) = "none") =>
                /\ c.out.ok
                /\ \A i \in 1..y.shape[1], j \in 1..y.shape[3] :
                       LET fit == FooofFit(FitX, EventSub(y, i, j))
                       IN  /\ FoofInput(y, i, j) = EventSub(y, i, j)
                           /\ c.out.slopes.at[<<i, j>>] = fit.background_params_[2]
                           /\ c.out.offsets.at[<<i, j>>] = fit.background_params_[1]
                           /\ \A f \in 1..y.shape[2] :
                                  c.out.resids.at[<<i, f, j>>] = fit._peak_fit[f]

====
